---- MODULE Spec2Model ----
(***************************************************************************)
(* A model of station_routing (src/src/main.rs): a RouteMap built from an  *)
(* edge list and the five queries route_distance, circular_route,          *)
(* exact_stops, shortest_route and routes_less_than that run against it.   *)
(*                                                                         *)
(* The graph is the HashMap<String, HashMap<String, u32>> of the source.   *)
(* The order in which a HashMap hands out its entries is unspecified; it   *)
(* is the variable iter, fixed when the map is built.  A u32 is held as    *)
(* its two 16-bit halves <<high, low>>: an addition that exceeds U32_MAX   *)
(* panics when the build checks overflow (debug) and wraps when it does    *)
(* not (release).                                                          *)
(***************************************************************************)
EXTENDS Naturals, Sequences, FiniteSets

\* Bounds of the model.
MaxEdges == 3
MaxHops == 3
MaxStops == 3
MaxCeiling == 4
MaxRouteLen == 5

\* A u32 is <<high, low>>, the number high * Base + low, both below Base.
Base == 2^16

\* The u32 of a number n < 2^31 (a literal of the source, a parsed distance).
u32(n) == <<n \div Base, n % Base>>

\* std::u32::MAX = 4294967295 = 65535 * 65536 + 65535
U32_MAX == <<Base - 1, Base - 1>>

Stations == {"A", "B", "C"}
\* The distances of the edges: for the queries that compare distances, for
\* exact_stops and route_distance (which only add them up) and for
\* circular_route (which never reads them).
Dists == {u32(1), u32(2), U32_MAX}
DistsAdded == {u32(1), U32_MAX}
DistsUnread == {u32(1)}
\* The arguments of route_distance are arbitrary &str values.
StopTokens == Stations \cup {""}

VARIABLES
    graph,            \* RouteMap.graph: station -> (destination -> distance)
    iter,             \* the iteration order of each inner HashMap
    overflow_checks,  \* TRUE: the build panics on u32 overflow, FALSE: it wraps
    pc,               \* "new", "idle", "run", "done", "panicked"
    cmd,              \* the query being run and its arguments
    frame,            \* the local variables of the running query
    result,           \* the Option<u32> a query returned, or the panic
    prev,             \* the query just returned and its result, while it is repeated
    outputs           \* the lines main has printed

vars == <<graph, iter, overflow_checks, pc, cmd, frame, result, prev, outputs>>

----------------------------------------------------------------------------
\* Values

EmptyMap == [x \in {} |-> 0]

Put(m, k, v) == [x \in DOMAIN m \cup {k} |-> IF x = k THEN v ELSE m[x]]

Some(n) == [tag |-> "Some", val |-> n, why |-> ""]
None == [tag |-> "None", val |-> u32(0), why |-> ""]
Panicked(w) == [tag |-> "panic", val |-> u32(0), why |-> w]
NoResult == [tag |-> "", val |-> u32(0), why |-> ""]

NoCmd == [op |-> ""]
NoFrame == [op |-> ""]
NoPrev == [cmd |-> NoCmd, result |-> NoResult]

Route(d, s) == [distance |-> d, stops |-> s]

\* Route::current_station
current_station(route) == route.stops[Len(route.stops)]

\* The orders a HashMap with the keys S can iterate in.
Perms(S) ==
    {p \in [1..Cardinality(S) -> S] : \A i, j \in 1..Cardinality(S) : p[i] = p[j] => i = j}

AllOrders(g) ==
    {o \in [DOMAIN g -> UNION {Perms(DOMAIN g[s]) : s \in DOMAIN g}] :
        \A s \in DOMAIN g : o[s] \in Perms(DOMAIN g[s])}

\* self: the RouteMap a query runs against.
Self == [graph |-> graph, iter |-> iter, checks |-> overflow_checks]

----------------------------------------------------------------------------
\* u32 arithmetic

\* a < b
Less(a, b) == a[1] < b[1] \/ (a[1] = b[1] /\ a[2] < b[2])

\* The sum of a and b as a number: <<high, low>> with low below Base and high
\* as large as the sum makes it.
Plus(a, b) == <<a[1] + b[1] + ((a[2] + b[2]) \div Base), (a[2] + b[2]) % Base>>

\* a + b overflows u32
Overflows(a, b) == Plus(a, b)[1] >= Base

\* a += b in a build without overflow checks
WrappingAdd(a, b) == <<Plus(a, b)[1] % Base, Plus(a, b)[2]>>

----------------------------------------------------------------------------
\* RouteMap::new

\* One iteration of the loop over the captures: the edge start -> destination.
Inserted(g, start, destination, distance) ==
    LET g1 == IF start \notin DOMAIN g THEN Put(g, start, EmptyMap) ELSE g
    IN Put(g1, start, Put(g1[start], destination, distance))

NumEdges(g) == Cardinality(UNION {{<<s, d>> : d \in DOMAIN g[s]} : s \in DOMAIN g})

\* The graph holds the edge already, or fewer than MaxEdges edges.
RoomFor(start, destination) ==
    \/ NumEdges(graph) < MaxEdges
    \/ (start \in DOMAIN graph /\ destination \in DOMAIN graph[start])

Insert(start, destination, distance) ==
    /\ pc = "new"
    /\ graph' = Inserted(graph, start, destination, distance)
    /\ UNCHANGED <<iter, overflow_checks, pc, cmd, frame, result, prev, outputs>>

\* Self { graph }: the map is built, its iteration order is whatever the
\* hasher's keys make it.
NewDone ==
    /\ pc = "new"
    /\ iter' \in AllOrders(graph)
    /\ pc' = "idle"
    /\ UNCHANGED <<graph, overflow_checks, cmd, frame, result, prev, outputs>>

\* RouteMap::new run again on the same input (another run of the program):
\* the same graph, a HashMap with fresh hasher keys.
Rebuild ==
    /\ pc = "idle"
    /\ \E o \in AllOrders(graph) : o # iter /\ iter' = o
    /\ UNCHANGED <<graph, overflow_checks, pc, cmd, frame, result, prev, outputs>>

----------------------------------------------------------------------------
\* Entering and leaving a query

\* The query returns r, or panics.
Leave(r) ==
    /\ result' = r
    /\ pc' = IF r.tag = "panic" THEN "panicked" ELSE "done"
    /\ frame' = NoFrame

\* A query is called: its statements before the loop give the frame f, or
\* panic (why).
Enter(c, f, why) ==
    /\ pc = "idle"
    /\ prev = NoPrev \/ prev.cmd = c
    /\ cmd' = c
    /\ UNCHANGED prev
    /\ IF why # ""
       THEN Leave(Panicked(why))
       ELSE /\ frame' = f
            /\ pc' = "run"
            /\ result' = NoResult
    /\ UNCHANGED <<graph, iter, overflow_checks, outputs>>

----------------------------------------------------------------------------
\* RouteMap::next_stops

NextRoutes(self, route) ==
    LET station == self.graph[current_station(route)]
        order == self.iter[current_station(route)]
    IN [i \in 1..Len(order) |->
            Route(WrappingAdd(route.distance, station[order[i]]),
                  Append(route.stops, order[i]))]

\* [panic |-> why or "", routes |-> the new routes]
next_stops(self, route) ==
    IF current_station(route) \notin DOMAIN self.graph
    THEN [panic |-> "unwrap", routes |-> <<>>]
    ELSE IF self.checks
            /\ \E d \in DOMAIN self.graph[current_station(route)] :
                  Overflows(route.distance, self.graph[current_station(route)][d])
         THEN [panic |-> "overflow", routes |-> <<>>]
         ELSE [panic |-> "", routes |-> NextRoutes(self, route)]

----------------------------------------------------------------------------
\* The caller gets the result back.
Return ==
    /\ pc = "done"
    /\ pc' = "idle"
    /\ prev' = NoPrev
    /\ cmd' = NoCmd
    /\ result' = NoResult
    /\ UNCHANGED <<graph, iter, overflow_checks, frame, outputs>>

\* The caller gets the result back and will repeat the query: prev
\* remembers what it got.
ReturnToRepeat ==
    /\ pc = "done"
    /\ pc' = "idle"
    /\ prev' = [cmd |-> cmd, result |-> result]
    /\ cmd' = NoCmd
    /\ result' = NoResult
    /\ UNCHANGED <<graph, iter, overflow_checks, frame, outputs>>

\* No route of the frontier is longer than the model follows it.
WithinCap ==
    pc = "run" =>
    \A i \in 1..Len(frame.stops) : Len(frame.stops[i].stops) <= MaxRouteLen

----------------------------------------------------------------------------
\* RouteMap::circular_route

\* CircularScan with count = 1 in place of count += 1
RECURSIVE CircularScanAssigns(_, _, _, _, _, _)
CircularScanAssigns(self, start, stops, i, count, next) ==
    IF i > Len(stops) THEN [none |-> FALSE, count |-> count, next_stops |-> next]
    ELSE IF stops[i] \notin DOMAIN self.graph
         THEN [none |-> TRUE, count |-> count, next_stops |-> next]
         ELSE LET order == self.iter[stops[i]]
                  hits == Cardinality({j \in 1..Len(order) : order[j] = start})
              IN CircularScanAssigns(self, start, stops, i + 1,
                                     IF hits > 0 THEN u32(1) ELSE count, next \o order)

\* CircularScan dropping a stop that has no entry in the graph, as next_stops
\* of the other queries is meant to
RECURSIVE CircularScanDrops(_, _, _, _, _, _)
CircularScanDrops(self, start, stops, i, count, next) ==
    IF i > Len(stops) THEN [none |-> FALSE, count |-> count, next_stops |-> next]
    ELSE IF stops[i] \notin DOMAIN self.graph
         THEN CircularScanDrops(self, start, stops, i + 1, count, next)
         ELSE LET order == self.iter[stops[i]]
                  hits == Cardinality({j \in 1..Len(order) : order[j] = start})
              IN CircularScanDrops(self, start, stops, i + 1, WrappingAdd(count, u32(hits)),
                              next \o order)

\* The for loop over stops, from the i-th stop on: none when a stop has no
\* entry in the graph (the ? operator), else the count and next_stops.
RECURSIVE CircularScan(_, _, _, _, _, _)
CircularScan(self, start, stops, i, count, next) ==
    IF i > Len(stops) THEN [none |-> FALSE, count |-> count, next_stops |-> next]
    ELSE IF stops[i] \notin DOMAIN self.graph
         THEN [none |-> TRUE, count |-> count, next_stops |-> next]
         ELSE LET order == self.iter[stops[i]]
                  hits == Cardinality({j \in 1..Len(order) : order[j] = start})
              IN CircularScan(self, start, stops, i + 1, WrappingAdd(count, u32(hits)),
                              next \o order)

CallCircular(start, max_stops) ==
    Enter([op |-> "circular_route", start |-> start, max_stops |-> max_stops],
          [op |-> "circular_route", stops |-> <<start>>, count |-> u32(0),
           stops_made |-> u32(0)],
          "")

RoundCircular ==
    /\ pc = "run"
    /\ cmd.op = "circular_route"
    /\ Less(frame.stops_made, cmd.max_stops)
    /\ LET r == CircularScan(Self, cmd.start, frame.stops, 1, frame.count, <<>>)
       IN IF r.none
          THEN Leave(None)
          ELSE /\ frame' = [frame EXCEPT !.stops = r.next_stops,
                                         !.count = r.count,
                                         !.stops_made = WrappingAdd(@, u32(1))]
               /\ UNCHANGED <<pc, result>>
    /\ UNCHANGED <<graph, iter, overflow_checks, cmd, prev, outputs>>

ExitCircular ==
    /\ pc = "run"
    /\ cmd.op = "circular_route"
    /\ ~Less(frame.stops_made, cmd.max_stops)
    /\ Leave(Some(frame.count))
    /\ UNCHANGED <<graph, iter, overflow_checks, cmd, prev, outputs>>

----------------------------------------------------------------------------
\* next_stops.extend(self.next_stops(route)) for the routes from the i-th on
RECURSIVE ExtendAll(_, _, _, _)
ExtendAll(self, routes, i, next) ==
    IF i > Len(routes) THEN [panic |-> "", routes |-> next]
    ELSE LET r == next_stops(self, routes[i])
         IN IF r.panic # "" THEN [panic |-> r.panic, routes |-> <<>>]
            ELSE ExtendAll(self, routes, i + 1, next \o r.routes)

\* The route a query starts from.
StartRoute(start) == Route(u32(0), <<start>>)

----------------------------------------------------------------------------
\* RouteMap::exact_stops

\* ExactFirstStops leaving the start route unexpanded
ExactFirstStopsUnexpanded(self, start) == [panic |-> "", routes |-> <<StartRoute(start)>>]

\* let mut stops = self.next_stops(start);
ExactFirstStops(self, start) == next_stops(self, StartRoute(start))

\* The routes of stops whose current station is destination.
ArrivedAt(stops, destination) ==
    u32(Cardinality({i \in 1..Len(stops) : current_station(stops[i]) = destination}))

CallExact(start, destination, target_stops) ==
    LET first == ExactFirstStops(Self, start)
    IN Enter([op |-> "exact_stops", start |-> start, destination |-> destination,
              target_stops |-> target_stops],
             [op |-> "exact_stops", stops |-> first.routes, stops_made |-> u32(0)],
             first.panic)

RoundExact ==
    /\ pc = "run"
    /\ cmd.op = "exact_stops"
    /\ Less(frame.stops_made, cmd.target_stops)
    /\ LET r == ExtendAll(Self, frame.stops, 1, <<>>)
       IN IF r.panic # ""
          THEN Leave(Panicked(r.panic))
          ELSE /\ frame' = [frame EXCEPT !.stops = r.routes,
                                         !.stops_made = WrappingAdd(@, u32(1))]
               /\ UNCHANGED <<pc, result>>
    /\ UNCHANGED <<graph, iter, overflow_checks, cmd, prev, outputs>>

ExitExact ==
    /\ pc = "run"
    /\ cmd.op = "exact_stops"
    /\ ~Less(frame.stops_made, cmd.target_stops)
    /\ Leave(Some(ArrivedAt(frame.stops, cmd.destination)))
    /\ UNCHANGED <<graph, iter, overflow_checks, cmd, prev, outputs>>

----------------------------------------------------------------------------
\* RouteMap::shortest_route

\* The for loop over stops, from the i-th route on.
RECURSIVE ShortestScan(_, _, _, _, _, _)
ShortestScan(self, destination, stops, i, shortest, next) ==
    IF i > Len(stops) THEN [panic |-> "", shortest_route |-> shortest, next_stops |-> next]
    ELSE IF Less(stops[i].distance, shortest.distance)
         THEN IF current_station(stops[i]) = destination
              THEN ShortestScan(self, destination, stops, i + 1, stops[i], next)
              ELSE LET r == next_stops(self, stops[i])
                   IN IF r.panic # ""
                      THEN [panic |-> r.panic, shortest_route |-> shortest, next_stops |-> next]
                      ELSE ShortestScan(self, destination, stops, i + 1, shortest,
                                        next \o r.routes)
         ELSE ShortestScan(self, destination, stops, i + 1, shortest, next)

\* if shortest_route.distance == std::u32::MAX { None } else { Some(..) }
ShortestResult(shortest) ==
    IF shortest.distance = U32_MAX THEN None ELSE Some(shortest.distance)

CallShortest(start, destination) ==
    LET first == next_stops(Self, StartRoute(start))
    IN Enter([op |-> "shortest_route", start |-> start, destination |-> destination],
             [op |-> "shortest_route", stops |-> first.routes,
              shortest_route |-> Route(U32_MAX, <<>>)],
             first.panic)

RoundShortest ==
    /\ pc = "run"
    /\ cmd.op = "shortest_route"
    /\ Len(frame.stops) > 0
    /\ LET r == ShortestScan(Self, cmd.destination, frame.stops, 1,
                             frame.shortest_route, <<>>)
       IN IF r.panic # ""
          THEN Leave(Panicked(r.panic))
          ELSE /\ frame' = [frame EXCEPT !.stops = r.next_stops,
                                         !.shortest_route = r.shortest_route]
               /\ UNCHANGED <<pc, result>>
    /\ UNCHANGED <<graph, iter, overflow_checks, cmd, prev, outputs>>

ExitShortest ==
    /\ pc = "run"
    /\ cmd.op = "shortest_route"
    /\ Len(frame.stops) = 0
    /\ Leave(ShortestResult(frame.shortest_route))
    /\ UNCHANGED <<graph, iter, overflow_checks, cmd, prev, outputs>>

----------------------------------------------------------------------------
\* RouteMap::routes_less_than

\* BelowCeiling with <= in place of <
BelowOrAtCeiling(route, max_distance) == ~Less(max_distance, route.distance)

\* if route.distance < max_distance
BelowCeiling(route, max_distance) == Less(route.distance, max_distance)

\* The for loop over stops, from the i-th route on.
RECURSIVE LessThanScan(_, _, _, _, _, _, _)
LessThanScan(self, destination, max_distance, stops, i, count, next) ==
    IF i > Len(stops) THEN [panic |-> "", count |-> count, next_stops |-> next]
    ELSE IF BelowCeiling(stops[i], max_distance)
         THEN LET hit == IF current_station(stops[i]) = destination THEN u32(1) ELSE u32(0)
                  r == next_stops(self, stops[i])
              IN IF r.panic # ""
                 THEN [panic |-> r.panic, count |-> WrappingAdd(count, hit),
                       next_stops |-> next]
                 ELSE LessThanScan(self, destination, max_distance, stops, i + 1,
                                   WrappingAdd(count, hit), next \o r.routes)
         ELSE LessThanScan(self, destination, max_distance, stops, i + 1, count, next)

CallLessThan(start, destination, max_distance) ==
    LET first == next_stops(Self, StartRoute(start))
    IN Enter([op |-> "routes_less_than", start |-> start, destination |-> destination,
              max_distance |-> max_distance],
             [op |-> "routes_less_than", stops |-> first.routes, count |-> u32(0)],
             first.panic)

RoundLessThan ==
    /\ pc = "run"
    /\ cmd.op = "routes_less_than"
    /\ Len(frame.stops) > 0
    /\ LET r == LessThanScan(Self, cmd.destination, cmd.max_distance, frame.stops, 1,
                             frame.count, <<>>)
       IN IF r.panic # ""
          THEN Leave(Panicked(r.panic))
          ELSE /\ frame' = [frame EXCEPT !.stops = r.next_stops, !.count = r.count]
               /\ UNCHANGED <<pc, result>>
    /\ UNCHANGED <<graph, iter, overflow_checks, cmd, prev, outputs>>

ExitLessThan ==
    /\ pc = "run"
    /\ cmd.op = "routes_less_than"
    /\ Len(frame.stops) = 0
    /\ Leave(Some(frame.count))
    /\ UNCHANGED <<graph, iter, overflow_checks, cmd, prev, outputs>>

----------------------------------------------------------------------------
\* RouteMap::route_distance

CallDistance(stops) ==
    Enter([op |-> "route_distance", stops |-> stops],
          [op |-> "route_distance", distance |-> u32(0), current_station |-> "", position |-> 1],
          "")

\* One iteration of the for loop: the stop stops[i].
StepDistance ==
    /\ pc = "run"
    /\ cmd.op = "route_distance"
    /\ frame.position <= Len(cmd.stops)
    /\ LET stop == cmd.stops[frame.position]
           cur == frame.current_station
       IN IF cur # ""
          THEN IF cur \notin DOMAIN graph
               THEN Leave(None)
               ELSE IF stop \notin DOMAIN graph[cur]
                    THEN Leave(None)
                    ELSE IF overflow_checks /\ Overflows(frame.distance, graph[cur][stop])
                         THEN Leave(Panicked("overflow"))
                         ELSE /\ frame' = [frame EXCEPT
                                     !.distance = WrappingAdd(@, graph[cur][stop]),
                                     !.current_station = stop,
                                     !.position = @ + 1]
                              /\ UNCHANGED <<pc, result>>
          ELSE /\ frame' = [frame EXCEPT !.current_station = stop, !.position = @ + 1]
               /\ UNCHANGED <<pc, result>>
    /\ UNCHANGED <<graph, iter, overflow_checks, cmd, prev, outputs>>

ExitDistance ==
    /\ pc = "run"
    /\ cmd.op = "route_distance"
    /\ frame.position > Len(cmd.stops)
    /\ Leave(Some(frame.distance))
    /\ UNCHANGED <<graph, iter, overflow_checks, cmd, prev, outputs>>

----------------------------------------------------------------------------
\* Specifications

Init ==
    /\ graph = EmptyMap
    /\ iter = EmptyMap
    /\ overflow_checks \in BOOLEAN
    /\ pc = "new"
    /\ cmd = NoCmd
    /\ frame = NoFrame
    /\ result = NoResult
    /\ prev = NoPrev
    /\ outputs = <<>>

Build(D) ==
    \/ \E s \in Stations, d \in Stations, n \in D : RoomFor(s, d) /\ Insert(s, d, n)
    \/ NewDone
    \/ Rebuild

NextCircular ==
    \/ Build(DistsUnread)
    \/ \E s \in Stations, n \in 0..MaxHops : CallCircular(s, u32(n))
    \/ RoundCircular
    \/ ExitCircular
    \/ Return

SpecCircular == Init /\ [][NextCircular]_vars

\* The sequences of 1..n elements of S
SeqsUpTo(S, n) == UNION {[1..k -> S] : k \in 1..n}

NextExact ==
    \/ Build(DistsAdded)
    \/ \E s \in Stations, d \in Stations, n \in 0..MaxHops : CallExact(s, d, u32(n))
    \/ RoundExact
    \/ ExitExact
    \/ Return

SpecExact == Init /\ [][NextExact]_vars

NextShortest ==
    \/ Build(Dists)
    \/ \E s \in Stations, d \in Stations : CallShortest(s, d)
    \/ (WithinCap /\ RoundShortest)
    \/ ExitShortest
    \/ Return
    \/ ReturnToRepeat

SpecShortest == Init /\ [][NextShortest]_vars

NextLessThan ==
    \/ Build(Dists)
    \/ \E s \in Stations, d \in Stations, c \in 0..MaxCeiling :
          CallLessThan(s, d, u32(c))
    \/ (WithinCap /\ RoundLessThan)
    \/ ExitLessThan
    \/ Return

SpecLessThan == Init /\ [][NextLessThan]_vars

NextDistance ==
    \/ Build(DistsAdded)
    \/ \E stops \in SeqsUpTo(StopTokens, MaxStops) : CallDistance(stops)
    \/ StepDistance
    \/ ExitDistance
    \/ Return

SpecDistance == Init /\ [][NextDistance]_vars

----------------------------------------------------------------------------
\* Walks of the graph, for the statements below

\* The number a u32 below 2^31 stands for.
Number(v) == v[1] * Base + v[2]

\* a - b, for b <= a
Minus(a, b) ==
    IF a[2] >= b[2] THEN <<a[1] - b[1], a[2] - b[2]>>
    ELSE <<a[1] - b[1] - 1, a[2] + Base - b[2]>>

\* The stations s has an edge to.
Succ(s) == IF s \in DOMAIN graph THEN DOMAIN graph[s] ELSE {}

RECURSIVE SumOf(_)
SumOf(f) ==
    IF DOMAIN f = {} THEN 0
    ELSE LET x == CHOOSE x \in DOMAIN f : TRUE
         IN f[x] + SumOf([y \in DOMAIN f \ {x} |-> f[y]])

\* The number of walks of exactly k hops from s to t.
RECURSIVE NumWalks(_, _, _)
NumWalks(k, s, t) ==
    IF k = 0 THEN (IF s = t THEN 1 ELSE 0)
    ELSE SumOf([u \in Succ(s) |-> NumWalks(k - 1, u, t)])

\* The stations the walks of exactly k hops from s end at.
RECURSIVE EndsOfWalks(_, _)
EndsOfWalks(k, s) ==
    IF k = 0 THEN {s}
    ELSE UNION {Succ(u) : u \in EndsOfWalks(k - 1, s)}

\* The total distances of the walks of exactly k hops from s.
RECURSIVE WalkDists(_, _)
WalkDists(k, s) ==
    IF k = 0 THEN {u32(0)}
    ELSE UNION {{Plus(graph[s][u], d) : d \in WalkDists(k - 1, u)} : u \in Succ(s)}

\* Some walk of fewer than n hops from s ends at a station without outgoing edges.
DeadEndBefore(n, s) ==
    \E k \in 0..n : k < n /\ \E u \in EndsOfWalks(k, s) : u \notin DOMAIN graph

\* Some walk of 1..n hops from s is longer than U32_MAX.
TooLongWithin(n, s) ==
    \E k \in 1..n : \E d \in WalkDists(k, s) : Less(U32_MAX, d)

\* The graph is one cycle of L stations through s and nothing else.
PureCycle(s, L) ==
    /\ s \in DOMAIN graph
    /\ Cardinality(DOMAIN graph) = L
    /\ \A u \in DOMAIN graph : Cardinality(DOMAIN graph[u]) = 1 /\ Succ(u) \subseteq DOMAIN graph
    /\ EndsOfWalks(L, s) = {s}
    /\ \A k \in 1..L : k < L => s \notin EndsOfWalks(k, s)

Finished(op) == pc \in {"done", "panicked"} /\ cmd.op = op

----------------------------------------------------------------------------
\* circular_route

\* C4: when no station expanded in the max_stops rounds lacks outgoing edges,
\* circular_route(start, max_stops) returns the number of walks of 1..max_stops
\* hops from start back to start; on a pure cycle of L stations that is
\* max_stops \div L.
CircularCountsWalks ==
    (Finished("circular_route") /\ ~DeadEndBefore(Number(cmd.max_stops), cmd.start)) =>
        /\ result = Some(u32(SumOf([k \in 1..Number(cmd.max_stops) |->
                                       NumWalks(k, cmd.start, cmd.start)])))
        /\ \A L \in 1..Cardinality(Stations) :
              PureCycle(cmd.start, L) => result = Some(u32(Number(cmd.max_stops) \div L))

\* A cycle of two stations walked for three hops.
CircularCountsWalksWitness ==
    /\ Finished("circular_route")
    /\ PureCycle(cmd.start, 2)
    /\ cmd.max_stops = u32(3)
    /\ result.tag = "Some"

\* C6: circular_route returns None exactly when some station expanded in one
\* of its max_stops rounds has no outgoing edges, and a count otherwise.
CircularDeadEndIsNone ==
    Finished("circular_route") =>
        /\ result.tag \in {"Some", "None"}
        /\ result.tag = "None" <=> DeadEndBefore(Number(cmd.max_stops), cmd.start)

\* The first round closed a cycle (a count of 1 or more), a later round met a
\* dead end.
CircularDeadEndIsNoneWitness ==
    /\ Finished("circular_route")
    /\ result = None
    /\ NumWalks(1, cmd.start, cmd.start) > 0

----------------------------------------------------------------------------
\* exact_stops

ExactPanics ==
    \/ DeadEndBefore(Number(cmd.target_stops) + 1, cmd.start)
    \/ overflow_checks /\ TooLongWithin(Number(cmd.target_stops) + 1, cmd.start)

\* C1 as amended: exact_stops(start, destination, target_stops) returns the
\* number of walks of exactly target_stops + 1 hops from start to destination;
\* it panics when a walk of at most target_stops hops from start ends at a
\* station without outgoing edges or, in a build that checks overflow, when a
\* walk of at most target_stops + 1 hops is longer than U32_MAX.
ExactStopsCountsOneMoreHop ==
    Finished("exact_stops") =>
        IF ExactPanics
        THEN result.tag = "panic"
        ELSE result = Some(u32(NumWalks(Number(cmd.target_stops) + 1, cmd.start,
                                       cmd.destination)))

\* Two or more walks counted after at least one round.
ExactStopsCountsOneMoreHopWitness ==
    /\ Finished("exact_stops")
    /\ Number(cmd.target_stops) >= 1
    /\ result.tag = "Some"
    /\ Number(result.val) >= 2
    /\ u32(NumWalks(Number(cmd.target_stops), cmd.start, cmd.destination)) # result.val

\* C1 as stated: the count exact_stops returns is the number of walks of
\* exactly target_stops hops from start to destination.
ExactStopsCountsExactHops ==
    (Finished("exact_stops") /\ result.tag = "Some") =>
        result.val = u32(NumWalks(Number(cmd.target_stops), cmd.start, cmd.destination))

----------------------------------------------------------------------------
\* exact_stops, shortest_route, routes_less_than: dead ends

\* C5: a route whose current station has no outgoing edges expands to nothing,
\* and the query still returns: no finished exact_stops, shortest_route or
\* routes_less_than has failed on the lookup of a station.
DeadEndsVanish ==
    (Finished("exact_stops") \/ Finished("shortest_route") \/ Finished("routes_less_than")) =>
        result.tag # "panic" \/ result.why # "unwrap"

----------------------------------------------------------------------------
\* shortest_route

\* The total distances of the walks of exactly k hops from s to t.
RECURSIVE WalkDistsTo(_, _, _)
WalkDistsTo(k, s, t) ==
    IF k = 0 THEN (IF s = t THEN {u32(0)} ELSE {})
    ELSE UNION {{Plus(graph[s][u], d) : d \in WalkDistsTo(k - 1, u, t)} : u \in Succ(s)}

\* With positive distances a shortest walk of one or more hops never visits a
\* station twice on its way, so it has at most as many hops as there are stations.
ShortWalkDists(s, t) == UNION {WalkDistsTo(k, s, t) : k \in 1..Cardinality(Stations)}

Reachable(s, t) == ShortWalkDists(s, t) # {}

MinWalk(s, t) == CHOOSE m \in ShortWalkDists(s, t) : \A d \in ShortWalkDists(s, t) : ~Less(d, m)

PositiveDistances == \A s \in DOMAIN graph : \A d \in DOMAIN graph[s] : graph[s][d] # u32(0)

\* C2: when destination is reachable from start by one or more hops,
\* shortest_route returns the least total distance of such a walk, never 0.
ShortestIsMinimum ==
    (Finished("shortest_route") /\ PositiveDistances
        /\ Reachable(cmd.start, cmd.destination)) =>
        /\ result = Some(MinWalk(cmd.start, cmd.destination))
        /\ result.val # u32(0)

\* C10: shortest_route ends with the best distance found, or with None, and
\* None exactly when no walk of one or more hops leads from start to
\* destination.
ShortestEndsWithBestOrNone ==
    (Finished("shortest_route") /\ PositiveDistances) =>
        /\ result.tag \in {"Some", "None"}
        /\ result.tag = "None" <=> ~Reachable(cmd.start, cmd.destination)
        /\ result.tag = "Some" => result.val = MinWalk(cmd.start, cmd.destination)

----------------------------------------------------------------------------
\* routes_less_than

\* The number of walks of one or more hops from s to t shorter than ceiling.
RECURSIVE NumWalksBelow(_, _, _)
NumWalksBelow(s, t, ceiling) ==
    SumOf([u \in {v \in Succ(s) : Less(graph[s][v], ceiling)} |->
              (IF u = t THEN 1 ELSE 0) + NumWalksBelow(u, t, Minus(ceiling, graph[s][u]))])

\* C3: routes_less_than returns the number of walks of one or more hops from
\* start to destination whose total distance is below the ceiling.
LessThanCountsWalks ==
    (Finished("routes_less_than") /\ PositiveDistances) =>
        result = Some(u32(NumWalksBelow(cmd.start, cmd.destination, cmd.max_distance)))

----------------------------------------------------------------------------
\* route_distance

HasEdge(a, b) == a \in DOMAIN graph /\ b \in DOMAIN graph[a]

\* The sum of the first n distances of the sequence f, as a number.
RECURSIVE Total(_, _)
Total(f, n) == IF n = 0 THEN u32(0) ELSE Plus(Total(f, n - 1), f[n])

\* C7: route_distance returns the sum of the distances of the consecutive
\* pairs when each pair has an edge (0 for a single station), and None when
\* some pair has none.
DistanceIsSum ==
    Finished("route_distance") =>
        LET stops == cmd.stops
            pairs == 1..(Len(stops) - 1)
        IN IF \E i \in pairs : ~HasEdge(stops[i], stops[i + 1])
           THEN result = None
           ELSE result = Some(Total([i \in pairs |-> graph[stops[i]][stops[i + 1]]],
                                    Len(stops) - 1))

----------------------------------------------------------------------------
\* Repeated queries

\* C9: a query repeated with the same arguments against the same graph
\* returns what it returned before, whatever order the edges are iterated in.
RepeatedQueryAgrees ==
    (pc \in {"done", "panicked"} /\ prev # NoPrev) => result = prev.result

----------------------------------------------------------------------------
\* main: the battery of COMMANDS

COMMANDS ==
    <<"ABCDistance", "ADDistance", "ADCDistance", "AEBCDDistance", "AEDDistance",
      "CCircular", "ACFourStop", "ACExpress", "BCircle", "CLessThanCircular">>

\* The input of check_all_commands, as the captures of the pattern.
BatteryInput ==
    <<<<"A", "B", 5>>, <<"B", "C", 4>>, <<"C", "D", 8>>, <<"D", "C", 8>>, <<"D", "E", 6>>,
      <<"A", "D", 5>>, <<"C", "E", 2>>, <<"E", "B", 3>>, <<"A", "E", 7>>>>

Digit(d) ==
    CASE d = 0 -> "0" [] d = 1 -> "1" [] d = 2 -> "2" [] d = 3 -> "3" [] d = 4 -> "4"
      [] d = 5 -> "5" [] d = 6 -> "6" [] d = 7 -> "7" [] d = 8 -> "8" [] d = 9 -> "9"

\* n / 10 and n % 10
DivTen(n) == <<n[1] \div 10, ((n[1] % 10) * Base + n[2]) \div 10>>
ModTen(n) == ((n[1] % 10) * Base + n[2]) % 10

\* num.to_string()
RECURSIVE to_string(_)
to_string(n) ==
    IF Less(n, u32(10)) THEN Digit(n[2]) ELSE to_string(DivTen(n)) \o Digit(ModTen(n))

\* eval_cmd: the match on result
ResultString(r) == IF r.tag = "Some" THEN to_string(r.val) ELSE "NO SUCH ROUTE"

\* RouteMap::new reads the next capture of the input (its edges are distinct).
ReadInput ==
    /\ NumEdges(graph) < Len(BatteryInput)
    /\ LET e == BatteryInput[NumEdges(graph) + 1] IN Insert(e[1], e[2], u32(e[3]))

InputRead == NumEdges(graph) = Len(BatteryInput)

\* eval_cmd: the match on cmd
EvalCmd(c) ==
    CASE c = "ABCDistance" -> CallDistance(<<"A", "B", "C">>)
      [] c = "ADDistance" -> CallDistance(<<"A", "D">>)
      [] c = "ADCDistance" -> CallDistance(<<"A", "D", "C">>)
      [] c = "AEBCDDistance" -> CallDistance(<<"A", "E", "B", "C", "D">>)
      [] c = "AEDDistance" -> CallDistance(<<"A", "E", "D">>)
      [] c = "CCircular" -> CallCircular("C", u32(3))
      [] c = "ACFourStop" -> CallExact("A", "B", u32(4))
      [] c = "ACExpress" -> CallShortest("A", "C")
      [] c = "BCircle" -> CallShortest("B", "B")
      [] c = "CLessThanCircular" -> CallLessThan("C", "C", u32(30))

\* main's loop over COMMANDS: the next command
EvalNext ==
    /\ Len(outputs) < Len(COMMANDS)
    /\ EvalCmd(COMMANDS[Len(outputs) + 1])

\* eval_cmd returns the string, main prints it.
EvalReturn ==
    /\ pc = "done"
    /\ pc' = "idle"
    /\ outputs' = Append(outputs, ResultString(result))
    /\ cmd' = NoCmd
    /\ result' = NoResult
    /\ UNCHANGED <<graph, iter, overflow_checks, frame, prev>>

NextBattery ==
    \/ ReadInput
    \/ (InputRead /\ NewDone)
    \/ EvalNext
    \/ StepDistance
    \/ ExitDistance
    \/ RoundCircular
    \/ ExitCircular
    \/ RoundExact
    \/ ExitExact
    \/ RoundShortest
    \/ ExitShortest
    \/ RoundLessThan
    \/ ExitLessThan
    \/ EvalReturn

SpecBattery == Init /\ [][NextBattery]_vars

\* C8: on the graph of check_all_commands the ten commands, in the order of
\* COMMANDS, give 9, 5, 13, 22, NO SUCH ROUTE, 2, 3, 9, 9, 7: what main has
\* printed is always the beginning of that list, no command panics, and the
\* battery runs to its end.
BatteryExpected ==
    <<"9", "5", "13", "22", "NO SUCH ROUTE", "2", "3", "9", "9", "7">>

BatteryOutputs ==
    /\ pc # "panicked"
    /\ Len(outputs) <= Len(BatteryExpected)
    /\ outputs = SubSeq(BatteryExpected, 1, Len(outputs))

\* All ten commands have been evaluated.
BatteryOutputsWitness ==
    /\ Len(outputs) = Len(COMMANDS)
    /\ outputs[5] = "NO SUCH ROUTE"
    /\ outputs[10] = "7"

====
